---- MODULE Spec2Model ----
(***************************************************************************)
(* Model of graffity-app-view.                                             *)
(*                                                                         *)
(*  - the chain-id -> ERC721Service registry of Server (NewServer,         *)
(*    getServiceForChainID, Close) with its sync.RWMutex, run by           *)
(*    concurrent request goroutines;                    specification Spec *)
(*  - the BMP renderer decodeBMPToBitfield, a pure function of the decoded *)
(*    buffer and the five palette tokens;            specification SpecBMP *)
(***************************************************************************)
EXTENDS Integers, Sequences, FiniteSets, TLC

\* ------------------------------------------------------------------ bounds
MaxChainID == 2          \* chain ids range over 0..MaxChainID
MaxSources == 2          \* configuration entries (RPC_URL_<id> variables)
MaxWidth == 3            \* image widths range over 0..MaxWidth
MaxHeight == 2           \* image heights range over -MaxHeight..MaxHeight

ChainIDs == 0..MaxChainID
\* the request goroutines that run handleToken concurrently
Threads == {1, 2}

\* the nil *ERC721Service returned next to an error
Nil == 0
\* the identity of the goroutine that runs Server.Close, as holder of mu
Closer == 3

\* The *ERC721Service object NewERC721Service builds for the configuration
\* entry keyed k.  Objects are compared by identity (pointer), never by key.
ServiceOf(k) == k + 1
Services == {ServiceOf(k) : k \in ChainIDs}

VARIABLES
    config,      \* Config.RPCConfigs: the set of configured chain-id keys
    chainOf,     \* chainOf[k]: chain id the RPC node of entry k answers
    services,    \* Server.services: map chain id -> service object
    pending,     \* NewServer: configuration entries not yet ranged over
    srv,         \* "init" | "failed" | "running" | "closed"
    writer,      \* Server.mu: goroutine holding or waiting for Lock, 0 if none
    readers,     \* Server.mu: goroutines holding RLock
    pc,          \* position of each goroutine in getServiceForChainID
    chainID,     \* argument of the current call
    ret,         \* returned service, Nil with the not-found error
    retID,       \* chain id named by the returned error (when ret = Nil)
    answerable,  \* some key's service answered the requested id, or would
                 \* have, in the scan of the current call
    probes,      \* probes[t][s]: GetChainID calls on s in the current call
    scanned,     \* the current call entered the range loop
    knownAtCall, \* chainID was a key when the current call started
    overlap,     \* goroutines whose current call overlaps this one
    configured,  \* keys stored by NewServer
    discovered,  \* key -> [svc, answer] stored by a scan
    closeCount,  \* ERC721Service.Close calls received by each object
    closePc      \* "idle" | "wait" | "done": position of Server.Close

regVars == <<config, chainOf, services, pending, srv, writer, readers, pc,
             chainID, ret, retID, answerable, probes, scanned,
             knownAtCall, overlap, configured, discovered,
             closeCount, closePc>>

VARIABLES
    dataURI,     \* argument of decodeBMPToBitfield: [prefix, b64, data]
    chars,       \* the palette c0..c4 handed to decodeBMPToBitfield
    bmpPc,       \* "idle" | "input" | "decoded" | "formatted" | "panicked"
    bitfield,    \* returned text: a sequence of lines of string pieces
    bmpErr,      \* returned error message, "" for nil
    response     \* text returned by FormatMetadataAsText, line by line

bmpVars == <<dataURI, chars, bmpPc, bitfield, bmpErr, response>>

vars == <<regVars, bmpVars>>

\* ------------------------------------------------------- map helpers
Put(m, k, v) == [x \in (DOMAIN m) \cup {k} |-> IF x = k THEN v ELSE m[x]]
EmptyMap == [x \in {} |-> Nil]
NoProbes == [s \in Services |-> 0]

\* ------------------------------------------------------------ LoadConfig
\* LoadConfig returns a non-empty map: one entry per RPC_URL_<id> variable
\* (RPC_URL_0 included), or the single legacy entry keyed 0.
LoadConfig == {c \in SUBSET ChainIDs : c # {} /\ Cardinality(c) <= MaxSources}

RegInit ==
    /\ config \in LoadConfig
    /\ chainOf \in [config -> ChainIDs]
    /\ services = EmptyMap
    /\ pending = config
    /\ srv = "init"
    /\ writer = 0
    /\ readers = {}
    /\ pc = [t \in Threads |-> "idle"]
    /\ chainID = [t \in Threads |-> 0]
    /\ ret = [t \in Threads |-> Nil]
    /\ retID = [t \in Threads |-> 0]
    /\ answerable = [t \in Threads |-> FALSE]
    /\ probes = [t \in Threads |-> NoProbes]
    /\ scanned = [t \in Threads |-> FALSE]
    /\ knownAtCall = [t \in Threads |-> FALSE]
    /\ overlap = [t \in Threads |-> {}]
    /\ configured = {}
    /\ discovered = EmptyMap
    /\ closeCount = [s \in Services |-> 0]
    /\ closePc = "idle"

\* ------------------------------------------------------------- NewServer
\* a NewServer that stores every entry under the id its node answers
KeyFor_AlwaysRekey(k) == chainOf[k]

\* The key an entry is stored under: its configured id, or for the legacy
\* entry 0 the id its own RPC node answers.
KeyFor(k) == IF k = 0 THEN chainOf[k] ELSE k

\* One iteration of the range loop, in the map's arbitrary order.
NewServerIter(k) ==
    /\ srv = "init"
    /\ k \in pending
    /\ pending' = pending \ {k}
    /\ services' = Put(services, KeyFor(k), ServiceOf(k))
    /\ configured' = configured \cup {KeyFor(k)}
    /\ UNCHANGED <<bmpVars, config, chainOf, srv, writer, readers, pc,
                   chainID, ret, retID, answerable, probes, scanned,
                   knownAtCall, overlap, discovered, closeCount, closePc>>

\* NewERC721Service fails, or GetChainID fails for the legacy entry.
NewServerFail(k) ==
    /\ srv = "init"
    /\ k \in pending
    /\ srv' = "failed"
    /\ UNCHANGED <<bmpVars, config, chainOf, services, pending, writer,
                   readers, pc, chainID, ret, retID, answerable, probes,
                   scanned, knownAtCall, overlap, configured, discovered,
                   closeCount, closePc>>

NewServerReturn ==
    /\ srv = "init"
    /\ pending = {}
    /\ srv' = "running"
    /\ UNCHANGED <<bmpVars, config, chainOf, services, pending, writer,
                   readers, pc, chainID, ret, retID, answerable, probes,
                   scanned, knownAtCall, overlap, configured, discovered,
                   closeCount, closePc>>

\* -------------------------------------------------- getServiceForChainID
\* service, exists := s.services[chainID]
Exists(c) == c \in DOMAIN services

\* a discovery path without the second existence check
Recheck_Never(c) == FALSE

\* if service, exists := s.services[chainID]; exists  (under the write lock)
Recheck(c) == c \in DOMAIN services

\* RLock is granted unless a writer holds mu or waits for it.
CanRLock == writer = 0

\* (*ERC721Service).GetChainID: the id the object's RPC node answers.
GetChainID(s) == chainOf[s - 1]

\* the keys the range loop of the scan goes over
ScanKeys == DOMAIN services

\* a scan that takes the first answer of any source for a match
IsMatch_Any(t, s) == GetChainID(s) \in ChainIDs

\* serviceChainID.Int64() == chainID
IsMatch(t, s) == GetChainID(s) = chainID[t]

\* a scan that returns the match without storing it
Cache_NoStore(c, s) == services

\* s.services[chainID] = existingService
Cache(c, s) == Put(services, c, s)

InFlight(u) == pc[u] \notin {"idle", "done"}

cfgVars == <<config, chainOf, pending, srv, configured>>
closeVars == <<closeCount, closePc>>
callVars == <<chainID, knownAtCall, overlap>>
scanVars == <<answerable, probes, scanned>>

\* handleToken calls getServiceForChainID(ctx, c) on a request goroutine.
Call(t, c) ==
    /\ srv = "running"
    /\ pc[t] = "idle"
    /\ chainID' = [chainID EXCEPT ![t] = c]
    /\ knownAtCall' = [knownAtCall EXCEPT ![t] = Exists(c)]
    /\ overlap' = [u \in Threads |->
                     IF u = t THEN {v \in Threads \ {t} : InFlight(v)}
                     ELSE IF InFlight(u) THEN overlap[u] \cup {t}
                     ELSE overlap[u] \ {t}]
    /\ pc' = [pc EXCEPT ![t] = "RLock"]
    /\ UNCHANGED <<bmpVars, cfgVars, closeVars, scanVars, services, writer,
                   readers, ret, retID, discovered>>

\* s.mu.RLock()
RLock(t) ==
    /\ pc[t] = "RLock"
    /\ CanRLock
    /\ readers' = readers \cup {t}
    /\ pc' = [pc EXCEPT ![t] = "read"]
    /\ UNCHANGED <<bmpVars, cfgVars, closeVars, callVars, scanVars, services,
                   writer, ret, retID, discovered>>

\* the lookup under the read lock, RUnlock, and the return when it exists
Read(t) ==
    /\ pc[t] = "read"
    /\ readers' = readers \ {t}
    /\ IF Exists(chainID[t])
       THEN /\ ret' = [ret EXCEPT ![t] = services[chainID[t]]]
            /\ pc' = [pc EXCEPT ![t] = "done"]
       ELSE /\ ret' = ret
            /\ pc' = [pc EXCEPT ![t] = "Lock"]
    /\ UNCHANGED <<bmpVars, cfgVars, closeVars, callVars, scanVars, services,
                   writer, retID, discovered>>

\* s.mu.Lock(): the writer is announced; later RLock calls wait behind it
Lock(t) ==
    /\ pc[t] = "Lock"
    /\ writer = 0
    /\ writer' = t
    /\ pc' = [pc EXCEPT ![t] = "LockWait"]
    /\ UNCHANGED <<bmpVars, cfgVars, closeVars, callVars, scanVars, services,
                   readers, ret, retID, discovered>>

\* s.mu.Lock() returns once the readers that held mu have left
LockAcquire(t) ==
    /\ pc[t] = "LockWait"
    /\ readers = {}
    /\ pc' = [pc EXCEPT ![t] = "check"]
    /\ UNCHANGED <<bmpVars, cfgVars, closeVars, callVars, scanVars, services,
                   writer, readers, ret, retID, discovered>>

\* the double check after acquiring the write lock; on a miss the range
\* loop starts
DoubleCheck(t) ==
    /\ pc[t] = "check"
    /\ IF Recheck(chainID[t])
       THEN /\ ret' = [ret EXCEPT ![t] = services[chainID[t]]]
            /\ pc' = [pc EXCEPT ![t] = "done"]
            /\ writer' = 0
            /\ UNCHANGED scanVars
       ELSE /\ pc' = [pc EXCEPT ![t] = "scan"]
            /\ scanned' = [scanned EXCEPT ![t] = TRUE]
            /\ UNCHANGED <<ret, writer, probes, answerable>>
    /\ UNCHANGED <<bmpVars, cfgVars, closeVars, callVars, services, readers,
                   retID, discovered>>

\* GetChainID on the service under key k answers, and with the requested
\* id; down holds the keys whose GetChainID call errors during this scan
Answers(down, t, k) == k \notin down /\ IsMatch(t, services[k])

\* a scan that an erroring GetChainID ends (break in place of continue)
Leaves_OnError(down, t, k) == k \in down \/ Answers(down, t, k)

\* the iteration on key k leaves the loop: an error is logged and skipped
\* (continue), an answer with another id falls through to the next key
Leaves(down, t, k) == Answers(down, t, k)

\* `for ... range s.services` visits the keys in an order the runtime picks.
\* A run of the loop is the set v of keys it visits and the key it visits
\* last: the first one that leaves the loop, or, when none does, any key
\* once all have been visited.
IsRun(down, t, v, last) ==
    /\ last \in v
    /\ \A k \in v \ {last} : ~Leaves(down, t, k)
    /\ Leaves(down, t, last) \/ v = ScanKeys

\* GetChainID calls the loop makes on object s when it visits the keys v
ProbeCount(v, s) == Cardinality({k \in v : services[k] = s})

\* the range loop of the scan, lines 70-86, run under the write lock: the
\* first answer with the requested id is cached and returned; without one
\* the not-found error.  Which GetChainID calls error (an unreachable RPC
\* node) is the environment's choice, as is the order of the keys.
Scan(t) ==
    /\ pc[t] = "scan"
    /\ \E down \in SUBSET ScanKeys :
       \E v \in SUBSET ScanKeys : \E last \in v :
         /\ IsRun(down, t, v, last)
         /\ answerable' = [answerable EXCEPT ![t] =
                             \E k \in ScanKeys : Answers(down, t, k)]
         /\ probes' = [probes EXCEPT ![t] =
                         [s \in Services |-> ProbeCount(v, s)]]
         /\ IF Answers(down, t, last)
            THEN /\ services' = Cache(chainID[t], services[last])
                 /\ discovered' = Put(discovered, chainID[t],
                                      [svc |-> services[last],
                                       answer |-> GetChainID(services[last])])
                 /\ ret' = [ret EXCEPT ![t] = services[last]]
                 /\ retID' = retID
            ELSE /\ ret' = [ret EXCEPT ![t] = Nil]
                 /\ retID' = [retID EXCEPT ![t] = chainID[t]]
                 /\ UNCHANGED <<services, discovered>>
    /\ pc' = [pc EXCEPT ![t] = "done"]
    /\ writer' = 0
    /\ UNCHANGED <<bmpVars, cfgVars, closeVars, callVars, readers, scanned>>

\* handleToken goes on with the result; the goroutine serves a next request
Return(t) ==
    /\ pc[t] = "done"
    /\ pc' = [pc EXCEPT ![t] = "idle"]
    /\ ret' = [ret EXCEPT ![t] = Nil]
    /\ retID' = [retID EXCEPT ![t] = 0]
    /\ chainID' = [chainID EXCEPT ![t] = 0]
    /\ answerable' = [answerable EXCEPT ![t] = FALSE]
    /\ probes' = [probes EXCEPT ![t] = NoProbes]
    /\ scanned' = [scanned EXCEPT ![t] = FALSE]
    /\ knownAtCall' = [knownAtCall EXCEPT ![t] = FALSE]
    /\ overlap' = [u \in Threads |-> IF u = t THEN {} ELSE overlap[u] \ {t}]
    /\ UNCHANGED <<bmpVars, cfgVars, closeVars, services, writer, readers,
                   discovered>>

\* ---------------------------------------------------------- Server.Close
\* s.mu.Lock() of Close
CloseLock ==
    /\ srv = "running"
    /\ closePc = "idle"
    /\ writer = 0
    /\ writer' = Closer
    /\ closePc' = "wait"
    /\ UNCHANGED <<bmpVars, config, chainOf, pending, srv, configured,
                   closeCount, callVars, scanVars, services, readers, pc, ret,
                   retID, discovered>>

\* ERC721Service.Close calls made by ranging over the map: one per key
ClosesOf(s) == Cardinality({k \in DOMAIN services : services[k] = s})

\* the range loop of Close under the write lock, and the deferred Unlock
CloseRun ==
    /\ closePc = "wait"
    /\ readers = {}
    /\ closeCount' = [s \in Services |-> closeCount[s] + ClosesOf(s)]
    /\ closePc' = "done"
    /\ srv' = "closed"
    /\ writer' = 0
    /\ UNCHANGED <<bmpVars, config, chainOf, pending, configured, callVars,
                   scanVars, services, readers, pc, ret, retID, discovered>>

RegNext ==
    \/ \E k \in ChainIDs : NewServerIter(k)
    \/ \E k \in ChainIDs : NewServerFail(k)
    \/ NewServerReturn
    \/ \E t \in Threads, c \in ChainIDs : Call(t, c)
    \/ \E t \in Threads : RLock(t)
    \/ \E t \in Threads : Read(t)
    \/ \E t \in Threads : Lock(t)
    \/ \E t \in Threads : LockAcquire(t)
    \/ \E t \in Threads : DoubleCheck(t)
    \/ \E t \in Threads : Scan(t)
    \/ \E t \in Threads : Return(t)
    \/ CloseLock
    \/ CloseRun

\* the renderer is not in use while the registry is exercised
BmpIdle ==
    /\ dataURI = [prefix |-> FALSE, b64 |-> FALSE, data |-> <<>>]
    /\ chars = <<>>
    /\ bmpPc = "idle"
    /\ bitfield = <<>>
    /\ bmpErr = ""
    /\ response = <<>>

Init == RegInit /\ BmpIdle
Next == RegNext
Spec == Init /\ [][Next]_vars

TypeOK ==
    /\ DOMAIN services \subseteq ChainIDs
    /\ \A k \in DOMAIN services : services[k] \in Services
    /\ writer \in 0..Closer
    /\ readers \subseteq Threads

\* ================================================== decodeBMPToBitfield
\* Byte i (from 0) of a Go byte slice.
At(d, i) == d[i + 1]

\* binary.LittleEndian.Uint16 / Uint32 of the bytes at offset i
Uint16(d, i) == At(d, i) + 256 * At(d, i + 1)
Uint32(d, i) ==
    At(d, i) + 256 * At(d, i + 1) + 65536 * At(d, i + 2)
        + 16777216 * At(d, i + 3)

\* int32(binary.LittleEndian.Uint32(...)): the same four bytes read as a
\* two's-complement number
Int32(d, i) ==
    At(d, i) + 256 * At(d, i + 1) + 65536 * At(d, i + 2)
        + 16777216 * (IF At(d, i + 3) >= 128 THEN At(d, i + 3) - 256
                      ELSE At(d, i + 3))

\* Go's integer division, which truncates toward zero
Quo(a, b) == IF a >= 0 THEN a \div b ELSE -((-a) \div b)

ErrFormat == "invalid BMP data URI format"
ErrBase64 == "failed to decode base64"
ErrTooShort == "BMP data too short"
ErrSignature == "invalid BMP signature"
ErrDepth == "unsupported bits per pixel"
ErrIncomplete == "BMP data incomplete"

\* len(bmpData) < 54
HeaderLen == 54
\* header.Signature != 0x4D42
Signature == 19778
\* the whitelist of infoHeader.BitsPerPixel
Depths == {1, 4, 8, 24, 32}

\* a decoder that validates the bit depth before the signature
HeaderError_DepthFirst(d) ==
    IF Len(d) < HeaderLen THEN ErrTooShort
    ELSE IF Uint16(d, 28) \notin Depths THEN ErrDepth
    ELSE IF Uint16(d, 0) # Signature THEN ErrSignature
    ELSE ""

\* the three header checks, lines 303-334, in the order of the code
HeaderError(d) ==
    IF Len(d) < HeaderLen THEN ErrTooShort
    ELSE IF Uint16(d, 0) # Signature THEN ErrSignature
    ELSE IF Uint16(d, 28) \notin Depths THEN ErrDepth
    ELSE ""

\* lines 336-348
Width(d) == Int32(d, 18)
IsTopDown(d) == Int32(d, 22) < 0
Height(d) == IF IsTopDown(d) THEN -Int32(d, 22) ELSE Int32(d, 22)
BitsPerPixel(d) == Uint16(d, 28)
BytesPerPixel(d) ==
    IF BitsPerPixel(d) = 1 THEN 0 ELSE BitsPerPixel(d) \div 8
RowSize(d) == Quo(Width(d) * BitsPerPixel(d) + 31, 32) * 4
PixelDataStart(d) == Uint32(d, 10)

\* ---- Go's int: 64 bits, two's complement, written as little-endian bytes.
\* The sums and products of lines 336-352 are taken in this width, so that
\* they wrap as the program's do.
IntBytes == 8

\* column sums reduced to bytes; the carry out of the last byte is dropped.
\* (s \o <<>> is the sequence s itself, held as a tuple.)
RECURSIVE Wrap(_, _)
Wrap(cols, carry) ==
    IF cols = <<>> THEN <<>>
    ELSE LET s == Head(cols) + carry
         IN  <<s % 256>> \o Wrap(Tail(cols), s \div 256)

Add(a, b) == Wrap([i \in DOMAIN a |-> a[i] + b[i]] \o <<>>, 0)
Neg(a) == Wrap([i \in DOMAIN a |-> 255 - a[i]] \o <<>>, 1)

RECURSIVE Dot(_, _, _, _)
Dot(a, b, k, i) ==
    IF i > k THEN 0 ELSE a[i] * b[k + 1 - i] + Dot(a, b, k, i + 1)
Mul(a, b) == Wrap([k \in DOMAIN a |-> Dot(a, b, k, 1)] \o <<>>, 0)

IsNeg(a) == a[Len(a)] >= 128
\* a < b, signed
Less(a, b) ==
    IF IsNeg(a) # IsNeg(b) THEN IsNeg(a)
    ELSE \E i \in DOMAIN a :
            a[i] < b[i] /\ \A j \in (i + 1)..Len(a) : a[j] = b[j]

\* a / 32 rounded down (the sign bit is shifted in)
Sar5(a) ==
    [i \in DOMAIN a |->
        (a[i] \div 32)
        + (IF i < Len(a) THEN (a[i + 1] % 32) * 8
           ELSE IF IsNeg(a) THEN 224 ELSE 0)] \o <<>>
\* a / 32 as Go divides: truncated toward zero
Quo32(a) == IF IsNeg(a) THEN Neg(Sar5(Neg(a))) ELSE Sar5(a)

\* the number v, -2^31 <= v < 2^31, in n bytes
Word(v, n) ==
    [i \in 1..n |->
        IF i <= 4 THEN (v \div (256 ^ (i - 1))) % 256
        ELSE IF v < 0 THEN 255 ELSE 0] \o <<>>

\* the k-byte little-endian field at offset i, widened to n bytes
Field(d, i, k, signed, n) ==
    [j \in 1..n |->
        IF j <= k THEN At(d, i + j - 1)
        ELSE IF signed /\ At(d, i + k - 1) >= 128 THEN 255 ELSE 0] \o <<>>

\* lines 336-351 in the width of int
IntWidth(d) == Field(d, 18, 4, TRUE, IntBytes)
IntHeight(d) ==
    LET height == Field(d, 22, 4, TRUE, IntBytes)
    IN  IF IsNeg(height) THEN Neg(height) ELSE height
IntBitsPerPixel(d) == Field(d, 28, 2, FALSE, IntBytes)
IntRowSize(d) ==
    Mul(Quo32(Add(Mul(IntWidth(d), IntBitsPerPixel(d)), Word(31, IntBytes))),
        Word(4, IntBytes))
IntPixelDataStart(d) == Field(d, 10, 4, FALSE, IntBytes)

\* pixelDataStart+rowSize*height > len(bmpData)
Incomplete(d) ==
    Less(Word(Len(d), IntBytes),
         Add(IntPixelDataStart(d), Mul(IntRowSize(d), IntHeight(d))))

\* rowOffset of the first row the y loop visits (line 373 / 401), in the
\* width of int
IntFirstRowOffset(d) ==
    LET startY == IF IsTopDown(d) THEN Word(0, IntBytes)
                  ELSE Add(IntHeight(d), Word(-1, IntBytes))
    IN  Add(IntPixelDataStart(d), Mul(startY, IntRowSize(d)))

\* lines 376-379 and 404-414 at the first cell: a negative offset passes the
\* bounds test (byteOffset < len, pixelOffset+bytesPerPixel <= len) and the
\* index expression bmpData[offset] then panics.  Depth 4 reads no byte.
\* An offset is negative only after the products have wrapped, and in the
\* buffers decoded here the first cell's then is.
Panics(d) ==
    /\ Uint16(d, 28) # 4
    /\ Less(Word(0, IntBytes), IntHeight(d))
    /\ Less(Word(0, IntBytes), IntWidth(d))
    /\ IsNeg(IntFirstRowOffset(d))

\* a y loop that ignores the sign of the height
RowOrder_Stored(d) == [i \in 1..Height(d) |-> i - 1]

\* the rows in the order the y loop visits them: bottom-up files from the
\* last stored row to the first, top-down files in stored order
RowOrder(d) ==
    [i \in 1..Height(d) |-> IF IsTopDown(d) THEN i - 1 ELSE Height(d) - i]

\* the pieces of a sequence of optional pieces (<<>> stands for a cell
\* that is skipped), concatenated
RECURSIVE Concat(_)
Concat(ss) == IF ss = <<>> THEN <<>> ELSE Head(ss) \o Concat(Tail(ss))

\* a 1-bit cell that takes the lowest bit of the byte first
Cell1_LowBitFirst(d, c, rowOffset, x) ==
    LET byteOffset == rowOffset + Quo(x, 8)
        bitOffset == x % 8
    IN  IF byteOffset < Len(d)
        THEN IF (At(d, byteOffset) \div (2 ^ bitOffset)) % 2 = 1
             THEN <<c[2]>> ELSE <<c[1]>>
        ELSE <<>>

\* lines 375-386: the token of column x of the row at rowOffset, 1-bit
Cell1(d, c, rowOffset, x) ==
    LET byteOffset == rowOffset + Quo(x, 8)
        bitOffset == 7 - (x % 8)
    IN  IF byteOffset < Len(d)
        THEN IF (At(d, byteOffset) \div (2 ^ bitOffset)) % 2 = 1
             THEN <<c[2]>> ELSE <<c[1]>>
        ELSE <<>>

\* thresholds that exclude their own value
Level_Exclusive(c, brightness) ==
    IF brightness > 204 THEN c[1]
    ELSE IF brightness > 153 THEN c[2]
    ELSE IF brightness > 102 THEN c[3]
    ELSE IF brightness > 51 THEN c[4]
    ELSE c[5]

\* lines 423-433: the five brightness levels
Level(c, brightness) ==
    IF brightness >= 204 THEN c[1]
    ELSE IF brightness >= 153 THEN c[2]
    ELSE IF brightness >= 102 THEN c[3]
    ELSE IF brightness >= 51 THEN c[4]
    ELSE c[5]

\* lines 406-419
Brightness(d, pixelOffset) ==
    IF BitsPerPixel(d) = 8 THEN At(d, pixelOffset)
    ELSE IF BitsPerPixel(d) \in {24, 32}
         THEN Quo(At(d, pixelOffset + 2) * 299 + At(d, pixelOffset + 1) * 587
                    + At(d, pixelOffset) * 114, 1000) % 256
         ELSE 128

\* lines 403-434: the token of column x of the row at rowOffset, other depths
CellN(d, c, rowOffset, x) ==
    LET pixelOffset == rowOffset + x * BytesPerPixel(d)
    IN  IF pixelOffset + BytesPerPixel(d) <= Len(d)
        THEN <<Level(c, Brightness(d, pixelOffset))>>
        ELSE <<>>

\* one text line: the indent, then the tokens of the row's cells
Row(d, c, y) ==
    LET rowOffset == PixelDataStart(d) + y * RowSize(d)
        cells == [i \in 1..Width(d) |->
                    IF BitsPerPixel(d) = 1 THEN Cell1(d, c, rowOffset, i - 1)
                    ELSE CellN(d, c, rowOffset, i - 1)]
    IN  <<"    ">> \o Concat(cells)

\* lines 356-440: the text written to the strings.Builder, line by line
Render(d, c) ==
    <<  <<"  Dimensions: ", ToString(Width(d)), "x", ToString(Height(d)),
          ", BPP: ", ToString(BitsPerPixel(d))>>,
        <<"  Bitfield:">> >>
    \o [i \in 1..Height(d) |-> Row(d, c, RowOrder(d)[i])]

\* decodeBMPToBitfield(dataURI, c0, c1, c2, c3, c4): (text, error)
decodeBMPToBitfield(uri, c) ==
    IF ~uri.prefix THEN [text |-> <<>>, err |-> ErrFormat, panic |-> FALSE]
    ELSE IF ~uri.b64 THEN [text |-> <<>>, err |-> ErrBase64, panic |-> FALSE]
    ELSE IF HeaderError(uri.data) # ""
         THEN [text |-> <<>>, err |-> HeaderError(uri.data), panic |-> FALSE]
    ELSE IF Incomplete(uri.data)
         THEN [text |-> <<>>, err |-> ErrIncomplete, panic |-> FALSE]
    ELSE IF Panics(uri.data) THEN [text |-> <<>>, err |-> "", panic |-> TRUE]
    ELSE [text |-> Render(uri.data, c), err |-> "", panic |-> FALSE]

\* ------------------------------------------------- the buffers decoded
\* byte j of v written little-endian in two's complement
LEByte(v, j) == (v \div (256 ^ j)) % 256

\* Pixel bytes repeat a pattern that holds the brightness thresholds and
\* their neighbours; the one-byte patterns give solid images.
Patterns ==
    { <<0, 51, 102, 153, 204, 255>>, <<165, 203, 50, 152, 101, 90>>,
      <<255>>, <<204>>, <<0>> }

\* row size of a well-formed file: rows padded to four bytes
Stride(w, bpp) == (((IF w > 0 THEN w ELSE 0) * bpp + 31) \div 32) * 4

\* A file with the given signature bytes, pixel-data offset, width, height,
\* bit depth and pixel pattern: 14-byte file header, 40-byte info header,
\* then the rows.
MkBMP(sig, off, w, h, bpp, pat) ==
    LET rows == IF h < 0 THEN -h ELSE h
        size == off + Stride(w, bpp % 64) * rows
    IN  [n \in 1..size |->
            LET p == n - 1 IN
            IF p < 2 THEN sig[p + 1]
            ELSE IF p \in 2..5 THEN LEByte(size, p - 2)
            ELSE IF p \in 10..13 THEN LEByte(off, p - 10)
            ELSE IF p = 14 THEN 40
            ELSE IF p \in 18..21 THEN LEByte(w, p - 18)
            ELSE IF p \in 22..25 THEN LEByte(h, p - 22)
            ELSE IF p = 26 THEN 1
            ELSE IF p \in 28..29 THEN LEByte(bpp, p - 28)
            ELSE IF p >= off THEN pat[((p - off) % Len(pat)) + 1]
            ELSE 0]

\* "BM", and the two ways of altering one of its bytes
SigBytes == { <<66, 77>>, <<66, 66>>, <<77, 77>> }
\* the supported depths, and depths outside the whitelist; 257 has a
\* supported low byte
DepthsTried == {0, 1, 4, 8, 16, 24, 32, 257}
Offsets == {HeaderLen, HeaderLen + 2}

\* widths up to the bound, and rows of one whole byte and of a byte and a bit
Widths == (0..MaxWidth) \cup {8, 9}

\* files with a sound header, of every size, depth and pattern; and files
\* of one pixel with each signature and each depth tried
WellSized ==
    { MkBMP(<<66, 77>>, off, w, h, bpp, pat) :
        off \in Offsets, w \in Widths, h \in (-MaxHeight)..MaxHeight,
        bpp \in Depths, pat \in Patterns }
    \cup { MkBMP(sig, off, 1, h, bpp, <<255>>) :
            sig \in SigBytes, off \in Offsets, h \in {-1, 1},
            bpp \in DepthsTried }

\* A buffer of n bytes whose offset, width and height fields hold the given
\* four bytes each.
MkHeader(off, w, h, bpp, n) ==
    [m \in 1..n |->
        LET p == m - 1 IN
        IF p = 0 THEN 66
        ELSE IF p = 1 THEN 77
        ELSE IF p \in 10..13 THEN off[p - 9]
        ELSE IF p = 14 THEN 40
        ELSE IF p \in 18..21 THEN w[p - 17]
        ELSE IF p \in 22..25 THEN h[p - 21]
        ELSE IF p = 26 THEN 1
        ELSE IF p = 28 THEN bpp
        ELSE IF p >= HeaderLen THEN 153
        ELSE 0]

\* int32 and uint32 values at and near the ends of their ranges
I32Max == <<255, 255, 255, 127>>                \* 2^31 - 1
I32Min == <<0, 0, 0, 128>>                      \* -2^31
I32Big == <<0, 0, 0, 64>>                       \* 2^30
I32Big1 == <<1, 0, 0, 64>>                      \* 2^30 + 1
I32One == <<1, 0, 0, 0>>                        \* 1
I32Neg1 == <<255, 255, 255, 255>>               \* -1, and 2^32 - 1 unsigned
I32Neg4 == <<252, 255, 255, 255>>               \* -4

\* <<width, height>> of the header-only buffers
ExtremeSizes ==
    { <<I32Max, I32Max>>, <<I32Big1, I32Max>>, <<I32Big, I32Max>>,
      <<I32One, I32Max>>, <<I32Max, I32One>>, <<I32One, I32Min>>,
      <<I32Neg4, I32One>>, <<I32Neg4, I32Neg1>>, <<I32Neg1, I32One>>,
      <<I32Min, I32One>> }

Extremes ==
    { MkHeader(off, s[1], s[2], bpp, n) :
        off \in { Word(HeaderLen, 4), Word(HeaderLen + 2, 4), I32Neg1 },
        s \in ExtremeSizes, bpp \in Depths,
        n \in {HeaderLen, HeaderLen + 4} }

\* each file whole, without its last byte, cut inside the header, and empty;
\* and the header-only buffers
Buffers ==
    UNION { { SubSeq(d, 1, n) :
                n \in {0, HeaderLen - 1, Len(d) - 1, Len(d)} } :
            d \in WellSized }
    \cup Extremes

\* what handleToken hands over: the metadata field with the BMP prefix and
\* valid base64 of a buffer, without the prefix, or with broken base64
DataURIs ==
    { [prefix |-> TRUE, b64 |-> TRUE, data |-> d] : d \in Buffers }
    \cup { [prefix |-> FALSE, b64 |-> TRUE, data |-> <<>>],
           [prefix |-> TRUE, b64 |-> FALSE, data |-> <<>>] }

\* one-character tokens, and tokens of several characters
Palettes == { <<" ", ".", "+", "#", "@">>,
              <<"[0]", "[1]", "[2]", "[3]", "[4]">> }

\* the registry is not in use while the renderer is exercised
RegIdle ==
    /\ config = {}
    /\ chainOf = EmptyMap
    /\ services = EmptyMap
    /\ pending = {}
    /\ srv = "init"
    /\ writer = 0
    /\ readers = {}
    /\ pc = [t \in Threads |-> "idle"]
    /\ chainID = [t \in Threads |-> 0]
    /\ ret = [t \in Threads |-> Nil]
    /\ retID = [t \in Threads |-> 0]
    /\ answerable = [t \in Threads |-> FALSE]
    /\ probes = [t \in Threads |-> NoProbes]
    /\ scanned = [t \in Threads |-> FALSE]
    /\ knownAtCall = [t \in Threads |-> FALSE]
    /\ overlap = [t \in Threads |-> {}]
    /\ configured = {}
    /\ discovered = EmptyMap
    /\ closeCount = [s \in Services |-> 0]
    /\ closePc = "idle"

BmpInit ==
    /\ dataURI \in DataURIs
    /\ chars \in Palettes
    /\ bmpPc = "input"
    /\ bitfield = <<>>
    /\ bmpErr = ""
    /\ response = <<>>

\* decodeBMPToBitfield applied to the field
Decode ==
    /\ bmpPc = "input"
    /\ LET r == decodeBMPToBitfield(dataURI, chars) IN
       /\ bitfield' = r.text
       /\ bmpErr' = r.err
       /\ bmpPc' = IF r.panic THEN "panicked" ELSE "decoded"
    /\ UNCHANGED <<regVars, dataURI, chars, response>>

\* ------------------------------------------------- FormatMetadataAsText
\* A line of the response: a fixed label, then the raw value of a field
\* (raw, empty or one value) or the rendered text (art).
Plain(label) == [label |-> label, raw |-> {}, art |-> <<>>]
Raw(label, u) == [label |-> label, raw |-> {u}, art |-> <<>>]
Art(label, text) == [label |-> label, raw |-> {}, art |-> text]

\* lines 203-214 and 251-256: what does not depend on the image fields
Opening ==
    << Plain("ERC721 Token Metadata"), Plain("===================="),
       Plain("Chain ID: "), Plain("Token ID: "), Plain("Name: "),
       Plain("Description: ") >>
Closing == << Plain("Properties:") >>

\* lines 218-227 and 232-241: a field with the BMP prefix is rendered; on an
\* error, and without the prefix, the field is printed as it is
FieldLine(label, u, c) ==
    IF ~u.prefix THEN Raw(label \o ": ", u)
    ELSE LET r == decodeBMPToBitfield(u, c)
         IN  IF r.err = "" THEN Art(label \o " (BMP Bitfield):", r.text)
             ELSE Raw(label \o ": ", u)

\* FormatMetadataAsText(metadata, chainID, tokenID, c0, c1, c2, c3, c4)
FormatMetadataAsText(metadata, c) ==
    Opening
    \o << FieldLine("Image", metadata.Image, c),
          FieldLine("External URL", metadata.ExternalURL, c) >>
    \o Closing

\* handleToken formats a document whose image and external_url fields both
\* hold the data URI; a panic of the decoder ends the call without a text
Format ==
    /\ bmpPc = "input"
    /\ LET r == decodeBMPToBitfield(dataURI, chars) IN
       IF dataURI.prefix /\ r.panic
       THEN /\ bmpPc' = "panicked"
            /\ UNCHANGED <<bitfield, bmpErr, response>>
       ELSE /\ bmpPc' = "formatted"
            /\ bitfield' = IF dataURI.prefix THEN r.text ELSE bitfield
            /\ bmpErr' = IF dataURI.prefix THEN r.err ELSE bmpErr
            /\ response' =
                    FormatMetadataAsText(
                        [Image |-> dataURI, ExternalURL |-> dataURI], chars)
    /\ UNCHANGED <<regVars, dataURI, chars>>

InitBMP == RegIdle /\ BmpInit
NextBMP == Decode \/ Format
SpecBMP == InitBMP /\ [][NextBMP]_vars

\* ====================================================== renderer properties
Decoded == bmpPc = "decoded" /\ dataURI.prefix /\ dataURI.b64
\* the first two bytes are 'B', 'M'
HasMagic(d) == d[1] = 66 /\ d[2] = 77
\* the 16-bit little-endian field at bytes 28-29 is a supported depth
HasDepth(d) == d[30] = 0 /\ d[29] \in {1, 4, 8, 24, 32}

\* C10: a buffer shorter than 54 bytes fails as too short; otherwise one
\* whose first two bytes are not the magic fails as bad signature;
\* otherwise one whose bit depth is not 1, 4, 8, 24 or 32 fails as
\* unsupported depth; and these errors are returned in no other case.
C10_HeaderChecksInOrder ==
    Decoded =>
        LET d == dataURI.data IN
        /\ bmpErr = ErrTooShort <=> Len(d) < 54
        /\ bmpErr = ErrSignature <=> (Len(d) >= 54 /\ ~HasMagic(d))
        /\ bmpErr = ErrDepth
              <=> (Len(d) >= 54 /\ HasMagic(d) /\ ~HasDepth(d))
        /\ bmpErr \in {ErrTooShort, ErrSignature, ErrDepth}
              => bitfield = <<>>

\* a full-length buffer with an altered signature and an unsupported depth:
\* the signature check comes first
C10_Witness ==
    /\ Decoded
    /\ Len(dataURI.data) >= 54
    /\ ~HasMagic(dataURI.data)
    /\ ~HasDepth(dataURI.data)
    /\ bmpErr = ErrSignature

\* ====================================================== registry properties
RECURSIVE SumOver(_, _)
SumOver(f, S) ==
    IF S = {} THEN 0
    ELSE LET x == CHOOSE y \in S : TRUE IN f[x] + SumOver(f, S \ {x})

\* GetChainID calls made so far by the current call of t
NProbes(t) == SumOver(probes[t], Services)
\* the distinct objects reachable through the map
Registered == {services[k] : k \in DOMAIN services}
Done(t) == pc[t] = "done"
Concurrent(t, u) == t # u /\ u \in overlap[t] /\ t \in overlap[u]

\* C1: once Close has run, every distinct object of the map has received
\* exactly one Close call, however many keys it is registered under.
C1_CloseOncePerSource ==
    closePc = "done" => \A s \in Registered : closeCount[s] = 1

\* C2: while one caller is in its scan, a caller that is about to look up a
\* chain id that is a key of the map can take the read lock, that is, it
\* completes without waiting for the scan.
C2_ScanNeverBlocksReads ==
    \A t, u \in Threads :
        (pc[t] = "scan" /\ pc[u] = "RLock" /\ Exists(chainID[u])) => CanRLock

\* C3 (as stated): a call for the chain id of any configured pair returns
\* the object built for that pair and probes nothing.
C3_ConfiguredPairResolves ==
    \A t \in Threads :
        (Done(t) /\ chainID[t] \in config)
            => (ret[t] = ServiceOf(chainID[t]) /\ NProbes(t) = 0)

\* the configured pairs NewServer leaves under their own key: not the
\* sentinel 0, and not the id the sentinel entry's node answers
KeptPairs ==
    {c \in config \ {0} : 0 \in config => chainOf[0] # c}

\* C3 (amended): a call for the chain id of a configured pair that is not
\* the sentinel 0 and not the id self-reported by the sentinel entry's
\* source returns the object built for that pair and probes nothing.
C3_KeptPairResolves ==
    \A t \in Threads :
        (Done(t) /\ chainID[t] \in KeptPairs)
            => (ret[t] = ServiceOf(chainID[t]) /\ NProbes(t) = 0)

C3_Witness ==
    \E t \in Threads :
        /\ Done(t)
        /\ 0 \in config
        /\ chainID[t] \in KeptPairs
        /\ ret[t] = ServiceOf(chainID[t])

\* what holds of a finished call for an id that was no key when it started
C4_Result(t) ==
    /\ ret[t] = Nil => (retID[t] = chainID[t] /\ scanned[t])
    /\ ret[t] # Nil => /\ GetChainID(ret[t]) = chainID[t]
                       /\ Exists(chainID[t])
                       /\ services[chainID[t]] = ret[t]
\* what holds of a finished call for an id a scan had cached before
C4_Again(t) ==
    /\ ret[t] = discovered[chainID[t]].svc
    /\ ret[t] = services[chainID[t]]
    /\ NProbes(t) = 0
    /\ ~scanned[t]
\* what holds of a finished call that scanned: it ends with the not-found
\* error exactly when no key's service answered the requested id
C4_Scanned(t) == ret[t] = Nil <=> ~answerable[t]

\* C4: a call for an id that is no key fails with the not-found error
\* naming that id when no registered source answers that id; when one
\* does, the call returns that source, and a later call for the same id
\* returns the same source without probing.
C4_DiscoverThenMemoized ==
    \A t \in Threads :
        /\ (Done(t) /\ scanned[t]) => C4_Scanned(t)
        /\ (Done(t) /\ ~knownAtCall[t]) => C4_Result(t)
        /\ (Done(t) /\ knownAtCall[t] /\ chainID[t] \in DOMAIN discovered)
              => C4_Again(t)

C4_Witness ==
    \E t \in Threads :
        /\ Done(t)
        /\ knownAtCall[t]
        /\ chainID[t] \in DOMAIN discovered
        /\ chainID[t] \notin configured
        /\ ret[t] = discovered[chainID[t]].svc

SameNovelID(t, u) ==
    /\ Concurrent(t, u)
    /\ Done(t) /\ Done(u)
    /\ chainID[t] = chainID[u]
    /\ ~knownAtCall[t] /\ ~knownAtCall[u]

\* C5 (as stated): two concurrent calls for the same id that is no key end
\* with the same result and at most one of them has scanned.
C5_OneScanServesBoth ==
    \A t, u \in Threads :
        SameNovelID(t, u)
            => (ret[t] = ret[u] /\ ~(scanned[t] /\ scanned[u]))

\* C5 (amended): two concurrent calls for the same id that is no key which
\* both return a source return the same source, and only one of them has
\* scanned; both scan only when the earlier scan found no source.
C5_ResolvedByOneScan ==
    \A t, u \in Threads :
        (SameNovelID(t, u) /\ ret[t] # Nil /\ ret[u] # Nil)
            => (ret[t] = ret[u] /\ ~(scanned[t] /\ scanned[u]))

C5_Witness ==
    \E t, u \in Threads :
        /\ SameNovelID(t, u)
        /\ ret[t] # Nil /\ ret[t] = ret[u]
        /\ scanned[t] /\ ~scanned[u]

\* C6: once NewServer has returned, 0 is never a key of the map.
C6_ZeroNeverKey ==
    srv \in {"running", "closed"} => 0 \notin DOMAIN services

\* C7: a scan in which some key's service answers the requested id returns
\* such a service, whichever services error and in whatever order the keys
\* are visited.
C7_ErroredProbeSkipped ==
    \A t \in Threads :
        (Done(t) /\ scanned[t] /\ answerable[t])
            => /\ ret[t] \in Registered
               /\ GetChainID(ret[t]) = chainID[t]
               /\ probes[t][ret[t]] >= 1

\* a finished scan that probed, without a result from it, another object
\* whose node is on the requested chain: that probe errored and was skipped
C7_Witness ==
    \E t \in Threads : \E s \in Services :
        /\ Done(t) /\ scanned[t]
        /\ ret[t] # Nil /\ s # ret[t]
        /\ probes[t][s] >= 1
        /\ s \in Registered
        /\ GetChainID(s) = chainID[t]

\* C8: one call probes each object at most once, so its probes never
\* exceed the number of distinct objects of the map.
C8_EachSourceProbedOnce ==
    \A t \in Threads :
        /\ \A s \in Services : probes[t][s] <= 1
        /\ NProbes(t) <= Cardinality(Registered)

RegistryInv ==
    \A k \in DOMAIN services :
        /\ services[k] # Nil
        /\ services[k] \in Services
        /\ \/ k \in configured
           \/ /\ k \in DOMAIN discovered
              /\ discovered[k].svc = services[k]
              /\ discovered[k].answer = k

\* C9: every key maps to a non-nil object and was either stored by
\* NewServer or added by a scan in which the mapped object answered that
\* key as its chain id; a call that ends with the not-found error adds no
\* key.
C9_RegistryInvariant ==
    [][/\ RegistryInv'
       /\ \A t \in Threads :
            (pc[t] # "done" /\ pc'[t] = "done" /\ ret'[t] = Nil)
                => services' = services
      ]_vars

C9_Witness ==
    \E t \in Threads :
        /\ Done(t) /\ scanned[t] /\ ret[t] = Nil
        /\ DOMAIN discovered # {}
        /\ DOMAIN services # configured


\* ===================================================== size of the pixel data
\* The arithmetic of the specification's formula is exact: it is taken in a
\* word wide enough that no value of the header makes it wrap.
ExactBytes == IntBytes + 4

\* ceil(width * bitDepth / 32) * 4
ExactStride(d) ==
    Mul(Sar5(Add(Mul(Field(d, 18, 4, TRUE, ExactBytes),
                     Field(d, 28, 2, FALSE, ExactBytes)),
                 Word(31, ExactBytes))),
        Word(4, ExactBytes))

\* |height|
ExactRows(d) ==
    LET h == Field(d, 22, 4, TRUE, ExactBytes)
    IN  IF IsNeg(h) THEN Neg(h) ELSE h

\* pixel-data offset + stride x |height|
Required(d) ==
    Add(Field(d, 10, 4, FALSE, ExactBytes), Mul(ExactStride(d), ExactRows(d)))

PassedHeader ==
    /\ bmpPc # "input"
    /\ dataURI.prefix /\ dataURI.b64
    /\ HeaderError(dataURI.data) = ""

\* C11: a buffer that passes the header checks fails as truncated exactly
\* when its length is less than pixel-data offset + stride x |height|, with
\* stride = ceil(width * bitDepth / 32) * 4, whatever 32-bit values the
\* width, height and offset fields hold.
C11_TruncatedIffShort ==
    PassedHeader =>
        (bmpErr = ErrIncomplete
            <=> Less(Word(Len(dataURI.data), ExactBytes),
                     Required(dataURI.data)))

\* ================================================================ row order
Rendered ==
    /\ bmpPc = "decoded"
    /\ dataURI.prefix /\ dataURI.b64
    /\ bmpErr = ""

\* The buffer that differs from d in the sign of the height field and in
\* holding the stored rows in the reverse order.  Rows of a width that is
\* not positive hold no pixels.
Mirror(d) ==
    [n \in 1..Len(d) |->
        LET p == n - 1
            q == p - PixelDataStart(d)
        IN  IF p \in 22..25 THEN LEByte(-Int32(d, 22), p - 22)
            ELSE IF /\ Width(d) > 0
                    /\ q >= 0
                    /\ q < RowSize(d) * Height(d)
                 THEN At(d, PixelDataStart(d)
                            + (Height(d) - 1 - (q \div RowSize(d)))
                                * RowSize(d)
                            + (q % RowSize(d)))
                 ELSE d[n]]

\* C12: a buffer with height +N emits its stored rows last row first, one
\* with height -N emits them in stored order; so the buffer and its mirror
\* (sign of the height flipped, stored rows reversed) render to the same
\* text, at every supported depth.
C12_HeightSignFixesRowOrder ==
    Rendered =>
        LET d == dataURI.data
            m == decodeBMPToBitfield(
                    [prefix |-> TRUE, b64 |-> TRUE, data |-> Mirror(d)],
                    chars)
        IN  /\ Len(bitfield) = Height(d) + 2
            /\ \A i \in 1..Height(d) :
                    bitfield[i + 2] =
                        Row(d, chars, IF Int32(d, 22) < 0 THEN i - 1
                                      ELSE Height(d) - i)
            /\ m.err = ""
            /\ m.text = bitfield

\* a top-down image of two rows that render differently
C12_Witness ==
    /\ Rendered
    /\ Int32(dataURI.data, 22) = -2
    /\ Width(dataURI.data) > 0
    /\ bitfield[3] # bitfield[4]

\* ================================================================ luminance
\* palette index (from 0) of each luminance bracket
Brackets == <<204..255, 153..203, 102..152, 51..101, 0..50>>
Bracket(l) == CHOOSE k \in 1..5 : l \in Brackets[k]

\* the stored row shown as visual row i (from 1)
StoredRow(d, i) == IF Int32(d, 22) < 0 THEN i - 1 ELSE Height(d) - i

\* luminance of the pixel at column x of stored row y: the raw byte at depth
\* 8; at depths 24 and 32 the bytes are B, G, R
Luminance(d, y, x) ==
    LET bytes == BitsPerPixel(d) \div 8
        o == PixelDataStart(d) + y * RowSize(d) + x * bytes
    IN  IF BitsPerPixel(d) = 8 THEN At(d, o)
        ELSE (299 * At(d, o + 2) + 587 * At(d, o + 1) + 114 * At(d, o))
                \div 1000

\* C13: at depths 8, 24 and 32 the token of each pixel is the palette entry
\* of its luminance bracket: >= 204 palette[0], 153..203 palette[1],
\* 102..152 palette[2], 51..101 palette[3], 0..50 palette[4].
C13_TokenByLuminance ==
    (Rendered /\ BitsPerPixel(dataURI.data) \in {8, 24, 32}) =>
        LET d == dataURI.data IN
        \A i \in 1..Height(d) :
            /\ Len(bitfield[i + 2])
                    = 1 + (IF Width(d) > 0 THEN Width(d) ELSE 0)
            /\ \A x \in 1..Width(d) :
                    bitfield[i + 2][x + 1]
                        = chars[Bracket(Luminance(d, StoredRow(d, i), x - 1))]

\* a 24-bit image whose first pixel has B = G = R = 204, luminance exactly
\* 204, shown as palette[0]
C13_Witness ==
    /\ Rendered
    /\ BitsPerPixel(dataURI.data) = 24
    /\ Width(dataURI.data) = 1 /\ Height(dataURI.data) = 1
    /\ Luminance(dataURI.data, 0, 0) = 204
    /\ bitfield[3] = <<"    ", chars[1]>>

\* ============================================================ 1-bit images
\* (rowByte[x/8] >> (7 - x%8)) & 1 for column x of stored row y
Bit(d, y, x) ==
    (At(d, PixelDataStart(d) + y * RowSize(d) + (x \div 8))
        \div (2 ^ (7 - (x % 8)))) % 2

\* the fixed indent followed by one token per column of visual row i
BitLine(d, c, i) ==
    <<"    ">> \o [x \in 1..Width(d) |-> c[Bit(d, StoredRow(d, i), x - 1) + 1]]

\* C14 as stated: a rendered 1-bit image of width w and height h yields
\* exactly h text lines, one per visual row, each the indent followed by the
\* w tokens palette[(rowByte[x/8] >> (7 - x%8)) & 1].
C14_OneBitLines ==
    (Rendered /\ BitsPerPixel(dataURI.data) = 1) =>
        /\ Len(bitfield) = Height(dataURI.data)
        /\ \A i \in 1..Height(dataURI.data) :
                bitfield[i] = BitLine(dataURI.data, chars, i)

\* C14 as amended: the text opens with two heading lines, the dimensions and
\* "Bitfield:", and the h lines of the rows follow them.
C14_OneBitLinesAfterHeading ==
    (Rendered /\ BitsPerPixel(dataURI.data) = 1) =>
        LET d == dataURI.data IN
        /\ Len(bitfield) = Height(d) + 2
        /\ bitfield[1] = <<"  Dimensions: ", ToString(Width(d)), "x",
                           ToString(Height(d)), ", BPP: ", "1">>
        /\ bitfield[2] = <<"  Bitfield:">>
        /\ \A i \in 1..Height(d) : bitfield[i + 2] = BitLine(d, chars, i)

\* width 8, height 2, bottom-up, stored rows 10100101 and 01100101, with the
\* tokens "[0]" and "[1]": the last stored row comes first
C14_Witness ==
    /\ Rendered
    /\ BitsPerPixel(dataURI.data) = 1
    /\ Width(dataURI.data) = 8
    /\ Int32(dataURI.data, 22) = 2
    /\ At(dataURI.data, PixelDataStart(dataURI.data)) = 165
    /\ At(dataURI.data, PixelDataStart(dataURI.data) + 4) = 101
    /\ chars[1] = "[0]" /\ chars[2] = "[1]"
    /\ Len(bitfield) = 4
    /\ bitfield[3] = <<"    ", "[0]", "[1]", "[1]", "[0]",
                               "[0]", "[1]", "[0]", "[1]">>
    /\ bitfield[4] = <<"    ", "[1]", "[0]", "[1]", "[0]",
                               "[0]", "[1]", "[0]", "[1]">>

\* ================================================================ failures
\* C15: every decode failure aborts the render with no partial output: the
\* decoder returns an error with empty text (it does not end otherwise), and
\* FormatMetadataAsText prints the raw value of the image (and external URL)
\* field in place of the art, between the same opening and closing lines
\* as ever.
C15_FailureFallsBackToRaw ==
    /\ bmpPc # "panicked"
    /\ (bmpPc \in {"decoded", "formatted"} /\ bmpErr # "")
            => bitfield = <<>>
    /\ (bmpPc = "formatted" /\ bmpErr # "")
            => response = Opening
                            \o << Raw("Image: ", dataURI),
                                  Raw("External URL: ", dataURI) >>
                            \o Closing
    /\ (bmpPc = "formatted" /\ dataURI.prefix /\ bmpErr = "")
            => response = Opening
                            \o << Art("Image (BMP Bitfield):", bitfield),
                                  Art("External URL (BMP Bitfield):",
                                      bitfield) >>
                            \o Closing

\* =============================================================== depth 4
\* d with its pixel data, from the pixel-data offset on, replaced by the
\* repeated pattern
Repaint(d, pat) ==
    [n \in 1..Len(d) |->
        IF n - 1 >= PixelDataStart(d)
        THEN pat[((n - 1 - PixelDataStart(d)) % Len(pat)) + 1]
        ELSE d[n]]

\* C16: a buffer declaring depth 4 is rejected as unsupported depth or is
\* rendered from its pixels: no 4-bit image that holds a pixel is rendered
\* to a text that every other pixel data would give as well.
C16_FourBitRejectedOrExtracted ==
    (/\ Rendered
     /\ BitsPerPixel(dataURI.data) = 4
     /\ Width(dataURI.data) >= 1
     /\ Height(dataURI.data) >= 1)
        => \E pat \in Patterns :
              decodeBMPToBitfield(
                  [prefix |-> TRUE, b64 |-> TRUE,
                   data |-> Repaint(dataURI.data, pat)], chars).text
                # bitfield

====
